---------------------------- MODULE Spec2Model ----------------------------
(***************************************************************************)
(* Model of the signal-to-order bot in src/app.py: the two signal          *)
(* endpoints (/webhook, /webhook_a_stock), the risk sizer (calc_qty), the  *)
(* position reconciler (close_if_reverse, _close), the trade ledger        *)
(* (save_trade_history) and the collaborators they call (exchange client,  *)
(* notification sink, ledger file).                                        *)
(*                                                                         *)
(* Units: prices and balances are integers, quantities are integers in     *)
(* units of 10^-QTY_PRECISION.  A Python float is a record [k, v] with     *)
(* k in {"num", "nan", "inf"} so that the comparisons the code makes on    *)
(* not-a-number and infinite values are computed as IEEE-754 computes      *)
(* them.                                                                   *)
(***************************************************************************)
EXTENDS Integers, Sequences, FiniteSets, TLC

(* ------------------------------ bounds --------------------------------- *)
\* Requests received in one behaviour.
MaxRequests == 2
\* Largest absolute position (in quantity units) the exchange lets the account hold.
MaxPos == 4000
\* Sequential appends of the ledger-only specification.
MaxAppends == 1002

(* ------------------------- program constants --------------------------- *)
\* RISK_PCT = 0.01 = RiskNum / RiskDen
RiskNum == 1
RiskDen == 100
\* 10^QTY_PRECISION, QTY_PRECISION = 3
QtyScale == 1000
\* "only keep the most recent 1000 records"
LedgerCap == 1000

SYMBOL == "BTCUSDT"
WEBHOOK_SECRET == "good"

\* The request-handling threads: thread 1 alone serves the single-threaded
\* server; two threads are the fewest that interleave.
Threads == {1, 2}

(* ------------------------------ floats --------------------------------- *)
Num(n) == [k |-> "num", v |-> n]
NaN == [k |-> "nan", v |-> 0]
PInf == [k |-> "inf", v |-> 0]

\* x <= 0 on floats: every ordering comparison with not-a-number is false.
FLe0(x) == x.k = "num" /\ x.v <= 0
\* x < 0 on floats.
FLt0(x) == x.k = "num" /\ x.v < 0

Abs(n) == IF n < 0 THEN -n ELSE n

\* abs(x - y)
FAbsDiff(x, y) ==
    IF x.k = "nan" \/ y.k = "nan" THEN NaN
    ELSE IF x.k = "inf" /\ y.k = "inf" THEN NaN
    ELSE IF x.k = "inf" \/ y.k = "inf" THEN PInf
    ELSE Num(Abs(x.v - y.v))

\* round(a / b) for a >= 0, b > 0, ties to the even neighbour (Python's round).
RoundHalfEven(a, b) ==
    LET q == a \div b
        r == a % b
    IN  IF 2 * r < b THEN q
        ELSE IF 2 * r > b THEN q + 1
        ELSE IF q % 2 = 0 THEN q ELSE q + 1

(* --------------------------- payload fields ---------------------------- *)
\* A raw numeric field of the payload: absent, a value float() rejects, or a
\* value float() accepts (a number, "nan", "inf").
Raw(t, v) == [t |-> t, v |-> v]
RawAbsent == Raw("absent", 0)
RawBad == Raw("bad", 0)
RawNaN == Raw("nan", 0)
RawInf == Raw("inf", 0)
RawNum(n) == Raw("num", n)

\* float(data.get(field, 0)): [ok, f]; ok = FALSE is ValueError/TypeError.
ParseFloat(raw) ==
    CASE raw.t = "absent" -> [ok |-> TRUE, f |-> Num(0)]
      [] raw.t = "bad"    -> [ok |-> FALSE, f |-> Num(0)]
      [] raw.t = "nan"    -> [ok |-> TRUE, f |-> NaN]
      [] raw.t = "inf"    -> [ok |-> TRUE, f |-> PInf]
      [] OTHER            -> [ok |-> TRUE, f |-> Num(raw.v)]

\* str.upper() on the side/action strings the model sends.
Upper(s) ==
    CASE s = "long"  -> "LONG"
      [] s = "short" -> "SHORT"
      [] s = "entry" -> "ENTRY"
      [] s = "exit"  -> "EXIT"
      [] s = "absent" -> ""
      [] OTHER       -> s

\* The secret the handler compares: data.get("secret") or request.args.get("secret").
\* "none" is an absent, null or empty value; "num" is a truthy non-string.
EffectiveSecret(p) == IF p.secret # "none" THEN p.secret ELSE p.qsecret


(* ------------------------------ payloads ------------------------------- *)
\* kind: "none" (no parser accepts the body), "falsy" (parses to an empty
\* object or another falsy value), "nonobj" (a non-empty array, string or
\* number), "obj" (a non-empty object).
Payload(kind, secret, qsecret, side, entry, stop, action, symbol, qty) ==
    [kind |-> kind, secret |-> secret, qsecret |-> qsecret, side |-> side,
     entry |-> entry, stop |-> stop, action |-> action, symbol |-> symbol,
     qty |-> qty]

\* An authorized, well-formed crypto signal.
Signal(side, entry, stop) ==
    Payload("obj", "good", "none", side, entry, stop, "absent", "", RawAbsent)

\* An authorized, well-formed stock signal.
StockSignal(action, side, symbol, qty, entry, stop) ==
    Payload("obj", "good", "none", side, entry, stop, action, symbol, qty)

SecretVals == {"none", "good", "bad", "num"}
QSecretVals == {"none", "good", "bad"}

\* Payloads that vary the parse outcome and the two secrets.
AuthInputs ==
    { Payload(k, "none", q, "LONG", RawNum(100), RawNum(95), "absent", "600519", RawNum(100)) :
        k \in {"none", "falsy", "nonobj"}, q \in {"good", "bad"} }
    \cup
    { Payload("obj", s, q, "LONG", RawNum(100), RawNum(95), "absent", "600519", RawNum(100)) :
        s \in SecretVals, q \in QSecretVals }

\* Authorized crypto signals that vary side, entry and stop.
WebhookInputs ==
    { Signal(sd, RawNum(100), RawNum(95)) : sd \in {"absent", "long", "FLAT", "num"} }
    \cup
    { Signal(sd, e, s) : sd \in {"LONG", "SHORT"},
                         e \in {RawNum(100), RawNum(95)}, s \in {RawNum(100), RawNum(95)} }
    \cup
    { Signal("LONG", e, RawNum(95)) : e \in {RawAbsent, RawBad, RawNaN, RawInf, RawNum(-5)} }
    \cup
    { Signal("SHORT", RawNum(100), s) : s \in {RawAbsent, RawBad, RawNaN, RawInf, RawNum(-5)} }

\* Authorized stock signals that vary action, side, symbol and the numbers.
StockInputs ==
    { StockSignal(a, "LONG", "600519", RawNum(100), RawNum(100), RawNum(95)) :
        a \in {"absent", "ENTRY", "entry", "EXIT", "num"} }
    \cup
    { StockSignal("ENTRY", sd, sym, RawNum(100), RawNum(100), RawNum(95)) :
        sd \in {"LONG", "long", "SHORT", "absent", "num"}, sym \in {"", "600519"} }
    \cup
    { StockSignal("ENTRY", "LONG", "600519", q, e, RawNum(95)) :
        q \in {RawAbsent, RawBad, RawNaN, RawNum(100)}, e \in {RawBad, RawNum(0), RawNum(100)} }

\* The requests the single-threaded server is sent: [ep, p].
SeqRequests ==
    { [ep |-> "webhook", p |-> p] : p \in AuthInputs \cup WebhookInputs }
    \cup
    { [ep |-> "a_stock", p |-> p] : p \in AuthInputs \cup StockInputs }

\* The requests the threaded server is sent: authorized, well-formed signals.
ConcRequests ==
    { [ep |-> "webhook", p |-> Signal(sd, RawNum(100), RawNum(95))] : sd \in {"LONG", "SHORT"} }
    \cup
    { [ep |-> "a_stock",
       p |-> StockSignal("ENTRY", "LONG", "600519", RawNum(100), RawNum(100), RawNum(95))] }

\* What get_balance() returns when the exchange answers.
Balances == {0, 1000}

(* ------------------------------ responses ------------------------------ *)
Resp(status, body) == [status |-> status, body |-> body]
NoResp == Resp(0, "")

\* The outcome of a handler's validation: a response, or the parsed fields.
Rejected(status, body) ==
    [go |-> FALSE, resp |-> Resp(status, body), side |-> "",
     entry |-> Num(0), stop |-> Num(0), qty |-> Num(0), symbol |-> ""]
Accepted(side, entry, stop, qty, symbol) ==
    [go |-> TRUE, resp |-> NoResp, side |-> side,
     entry |-> entry, stop |-> stop, qty |-> qty, symbol |-> symbol]

\* /webhook up to the sizing step: parse, authorize, validate.
webhook_validate(p) ==
    IF p.kind = "nonobj" THEN Rejected(500, "internal server error")
    ELSE IF p.kind # "obj" THEN Rejected(400, "invalid json")
    ELSE IF EffectiveSecret(p) # WEBHOOK_SECRET THEN
        IF EffectiveSecret(p) = "num"
        THEN Rejected(500, "internal server error")
        ELSE Rejected(403, "unauthorized")
    ELSE IF p.side = "num" THEN Rejected(500, "internal server error")
    ELSE IF Upper(p.side) \notin {"LONG", "SHORT"} THEN Rejected(400, "invalid side")
    ELSE IF ~ParseFloat(p.entry).ok \/ ~ParseFloat(p.stop).ok
        THEN Rejected(400, "invalid entry or stop value")
    ELSE LET entry == ParseFloat(p.entry).f
             stop == ParseFloat(p.stop).f
         IN  IF FLe0(entry) \/ FLe0(stop)
             THEN Rejected(400, "entry and stop must be positive")
             ELSE IF FLe0(FAbsDiff(entry, stop))
             THEN Rejected(400, "entry and stop must be different")
             ELSE Accepted(Upper(p.side), entry, stop, Num(0), "")

\* data.get("action", "ENTRY").upper()
ActionOf(p) == IF p.action = "absent" THEN "ENTRY" ELSE Upper(p.action)

\* /webhook_a_stock up to the notification: parse, authorize, validate.
webhook_a_stock_validate(p) ==
    IF p.kind = "nonobj" THEN Rejected(500, "internal server error")
    ELSE IF p.kind # "obj" THEN Rejected(400, "invalid json")
    ELSE IF EffectiveSecret(p) # WEBHOOK_SECRET THEN Rejected(403, "unauthorized")
    ELSE IF p.action = "num" THEN Rejected(500, "internal server error")
    ELSE IF ActionOf(p) # "ENTRY" THEN Rejected(200, "ignored")
    ELSE IF p.side = "num" THEN Rejected(500, "internal server error")
    ELSE IF Upper(p.side) # "LONG" THEN Rejected(400, "only LONG orders are supported")
    ELSE IF ~ParseFloat(p.qty).ok \/ ~ParseFloat(p.entry).ok \/ ~ParseFloat(p.stop).ok
        THEN Rejected(400, "invalid qty, entry or stop value")
    ELSE LET qty == ParseFloat(p.qty).f
             entry == ParseFloat(p.entry).f
             stop == ParseFloat(p.stop).f
         IN  IF FLe0(entry) \/ FLe0(stop) \/ FLe0(qty)
             THEN Rejected(400, "qty, entry and stop must be positive")
             ELSE Accepted(Upper(p.side), entry, stop, qty, p.symbol)

(* ------------------------------- sizer --------------------------------- *)
\* What get_balance() gives calc_qty: a balance, or an exception.
BalanceResults == {[ok |-> FALSE, v |-> 0]} \cup {[ok |-> TRUE, v |-> b] : b \in Balances}

\* A sizer without its "balance <= 0" guard.
calc_qtyBug(entry, stop, bal) ==
    IF FLe0(entry) \/ FLe0(stop) THEN Num(0)
    ELSE LET dist == FAbsDiff(entry, stop)
         IN  IF FLe0(dist) THEN Num(0)
             ELSE IF ~bal.ok THEN Num(0)
             ELSE IF dist.k = "nan" THEN NaN
             ELSE IF dist.k = "inf" THEN Num(0)
             ELSE LET q == RoundHalfEven(Abs(bal.v) * RiskNum * QtyScale, RiskDen * dist.v)
                  IN  Num(IF bal.v < 0 THEN -q ELSE q)

\* A sizer that multiplies the risk amount by the distance.
calc_qty_atBug(risk, entry, stop, bal) ==
    IF FLe0(entry) \/ FLe0(stop) THEN Num(0)
    ELSE LET dist == FAbsDiff(entry, stop)
         IN  IF FLe0(dist) THEN Num(0)
             ELSE IF ~bal.ok THEN Num(0)
             ELSE IF bal.v <= 0 THEN Num(0)
             ELSE IF dist.k = "nan" THEN NaN
             ELSE IF dist.k = "inf" THEN Num(0)
             ELSE Num(RoundHalfEven(bal.v * risk.num * QtyScale * dist.v, risk.den))

\* calc_qty(entry, stop) when RISK_PCT is risk.num / risk.den, given the
\* outcome of its get_balance() call.
calc_qty_at(risk, entry, stop, bal) ==
    IF FLe0(entry) \/ FLe0(stop) THEN Num(0)
    ELSE LET dist == FAbsDiff(entry, stop)
         IN  IF FLe0(dist) THEN Num(0)
             ELSE IF ~bal.ok THEN Num(0)
             ELSE IF bal.v <= 0 THEN Num(0)
             ELSE IF dist.k = "nan" THEN NaN
             ELSE IF dist.k = "inf" THEN Num(0)
             ELSE Num(RoundHalfEven(bal.v * risk.num * QtyScale, risk.den * dist.v))

\* RISK_PCT as configured by default.
RISK_PCT == [num |-> RiskNum, den |-> RiskDen]

\* calc_qty(entry, stop) given the outcome of its get_balance() call.
calc_qty(entry, stop, bal) == calc_qty_at(RISK_PCT, entry, stop, bal)

\* A sizing check that lets a zero quantity through ("if qty < 0").
qty_too_smallBug(qty) == FLt0(qty)

\* "if qty <= 0: ... return 400": TRUE when the request is rejected as too small.
qty_too_small(qty) == FLe0(qty)


(* ----------------------------- reconciler ------------------------------ *)
\* An order handed to the exchange client.
Order(side, qty, ro) == [side |-> side, qty |-> qty, ro |-> ro]

\* A reconciler that closes on the same side instead of the opposite one.
close_if_reverseBug(tt, side, pos_qty) ==
    IF side = "LONG" /\ pos_qty > 0 THEN [call |-> TRUE, qty |-> Abs(pos_qty)]
    ELSE IF side = "SHORT" /\ pos_qty < 0 THEN [call |-> TRUE, qty |-> Abs(pos_qty)]
    ELSE [call |-> FALSE, qty |-> 0]

\* close_if_reverse(side, pos_qty): whether it calls _close, and with what quantity.
close_if_reverse(tt, side, pos_qty) ==
    IF tt = "futures"
    THEN IF side = "LONG" /\ pos_qty < 0 THEN [call |-> TRUE, qty |-> Abs(pos_qty)]
         ELSE IF side = "SHORT" /\ pos_qty > 0 THEN [call |-> TRUE, qty |-> Abs(pos_qty)]
         ELSE [call |-> FALSE, qty |-> 0]
    ELSE IF side = "SHORT" /\ pos_qty > 0 THEN [call |-> TRUE, qty |-> pos_qty]
         ELSE [call |-> FALSE, qty |-> 0]

\* The side _close(qty) gives its futures order.
close_side(qty) == IF qty < 0 THEN "BUY" ELSE "SELL"

\* _close(qty): whether an order is sent (qty <= 0 returns early), and the order:
\* a reduce-only market order on futures, a market sell on spot.
_close(tt, qty) ==
    [sent |-> qty > 0,
     order |-> IF tt = "futures"
               THEN Order(close_side(qty), Num(Abs(qty)), TRUE)
               ELSE Order("SELL", Num(qty), FALSE)]

\* A skip check that skips a spot LONG when a position is already held.
skip_checkSpot(tt, side, pos_qty) ==
    IF tt = "futures"
    THEN IF side = "LONG" /\ pos_qty > 0 THEN Resp(200, "skip")
         ELSE IF side = "SHORT" /\ pos_qty < 0 THEN Resp(200, "skip")
         ELSE NoResp
    ELSE IF side = "SHORT" THEN Resp(400, "SHORT orders not supported in spot trading")
         ELSE IF pos_qty > 0 THEN Resp(200, "skip")
         ELSE NoResp

\* A skip check that also skips a request that read a flat position.
skip_checkFlat(tt, side, pos_qty) ==
    IF tt = "futures"
    THEN IF side = "LONG" /\ pos_qty >= 0 THEN Resp(200, "skip")
         ELSE IF side = "SHORT" /\ pos_qty <= 0 THEN Resp(200, "skip")
         ELSE NoResp
    ELSE IF side = "SHORT" THEN Resp(400, "SHORT orders not supported in spot trading")
         ELSE NoResp

\* A skip check that forgets the SHORT case.
skip_checkBug(tt, side, pos_qty) ==
    IF tt = "futures"
    THEN IF side = "LONG" /\ pos_qty > 0 THEN Resp(200, "skip") ELSE NoResp
    ELSE IF side = "SHORT" THEN Resp(400, "SHORT orders not supported in spot trading")
         ELSE NoResp

\* The check after close_if_reverse: a response that ends the request, or NoResp.
skip_check(tt, side, pos_qty) ==
    IF tt = "futures"
    THEN IF side = "LONG" /\ pos_qty > 0 THEN Resp(200, "skip")
         ELSE IF side = "SHORT" /\ pos_qty < 0 THEN Resp(200, "skip")
         ELSE NoResp
    ELSE IF side = "SHORT" THEN Resp(400, "SHORT orders not supported in spot trading")
         ELSE NoResp

\* The opening market order: BUY for LONG, SELL for SHORT on futures; a market
\* buy worth qty * entry on spot.
open_order(tt, side, qty) ==
    IF tt = "futures"
    THEN Order(IF side = "LONG" THEN "BUY" ELSE "SELL", qty, FALSE)
    ELSE Order("BUY", qty, FALSE)

\* What a failed close does to the request: the response of the except branch.
close_failed_resp == Resp(500, "failed to close reverse position")

(* ------------------------------ exchange ------------------------------- *)
\* The position after the exchange fills an order: a reduce-only order moves
\* the position towards flat and never past it.
Fill(order, pos) ==
    LET q == order.qty.v
        d == IF order.side = "BUY" THEN q ELSE -q
    IN  IF order.ro
        THEN IF pos > 0 THEN pos - (IF q < pos THEN q ELSE pos)
             ELSE pos + (IF q < -pos THEN q ELSE -pos)
        ELSE pos + d

\* Whether the exchange can accept an order: a positive finite quantity; a
\* reduce-only order only on the side that reduces the position; a spot sell
\* only of what is held.
CanFill(tt, order, pos) ==
    /\ order.qty.k = "num"
    /\ order.qty.v > 0
    /\ order.ro => \/ (order.side = "SELL" /\ pos > 0)
                   \/ (order.side = "BUY" /\ pos < 0)
    /\ (tt = "spot" /\ order.side = "SELL") => pos >= order.qty.v
    /\ Abs(Fill(order, pos)) <= MaxPos

(* ------------------------------- ledger -------------------------------- *)
\* A record that stores its timestamp where no order id was given.
TradeRecordIdBug(ts, side, qty, entry, stop, order_id, symbol, message) ==
    [timestamp |-> ts, side |-> side, qty |-> qty, entry |-> entry, stop |-> stop,
     order_id |-> IF order_id = 0 THEN ts ELSE order_id,
     symbol |-> IF symbol = "" THEN SYMBOL ELSE symbol,
     message |-> message]

\* A record that stores the stop in the entry's place and the entry in the stop's.
TradeRecordBug(ts, side, qty, entry, stop, order_id, symbol, message) ==
    [timestamp |-> ts, side |-> side, qty |-> qty, entry |-> stop, stop |-> entry,
     order_id |-> order_id,
     symbol |-> IF symbol = "" THEN SYMBOL ELSE symbol,
     message |-> message]

\* The record save_trade_history builds from its arguments.
TradeRecord(ts, side, qty, entry, stop, order_id, symbol, message) ==
    [timestamp |-> ts, side |-> side, qty |-> qty, entry |-> entry, stop |-> stop,
     order_id |-> order_id,
     symbol |-> IF symbol = "" THEN SYMBOL ELSE symbol,
     message |-> message]
NoRec == TradeRecord(0, "", Num(0), Num(0), Num(0), 0, "", "")

\* history[-LedgerCap:]
LastN(h, n) == IF Len(h) > n THEN SubSeq(h, Len(h) - n + 1, Len(h)) ELSE h

\* A cap that keeps the oldest records ("history[:1000]").
save_historyBug(history, rec) ==
    LET h == Append(history, rec)
    IN  IF Len(h) > LedgerCap THEN SubSeq(h, 1, LedgerCap) ELSE h

\* history.append(trade_record), then the cap.
save_history(history, rec) ==
    LET h == Append(history, rec)
    IN  IF Len(h) > LedgerCap THEN LastN(h, LedgerCap) ELSE h

\* A save_trade_history whose write is outside the try block.
save_raisesBug(readOk, writeOk) == ~writeOk

\* Whether save_trade_history lets an I/O error reach its caller: its whole
\* body is inside try/except Exception, which logs and returns.
save_raises(readOk, writeOk) == FALSE

(* ------------------------------- state --------------------------------- *)
VARIABLES
    th,           \* th[t]: the request thread t is handling
    ledger,       \* the ledger file's records (empty: no file, or an unreadable one)
    position,     \* the account's signed position on the exchange
    nextOrderId,  \* the id the exchange gives its next accepted order
    clock,        \* the logical time stamped on ledger records
    nreq,         \* requests received so far
    tradeType,    \* TRADE_TYPE: "futures" or "spot"
    query,        \* the last get_trade_history call: its limit and its result
    sizings,      \* calc_qty evaluations: their inputs and results
    startup       \* the startup connectivity check: its state and ping attempts

vars == <<th, ledger, position, nextOrderId, clock, nreq, tradeType, query, sizings, startup>>

Call(op, ok, order) == [op |-> op, ok |-> ok, order |-> order]
NoOrder == Order("", Num(0), FALSE)
NoPayload == Payload("", "", "", "", RawAbsent, RawAbsent, "", "", RawAbsent)

\* No get_trade_history call was made; no calc_qty evaluation is held.
NoQuery == [called |-> FALSE, limit |-> 0, readOk |-> TRUE, store |-> <<>>,
            result |-> <<>>]
NoSizings == <<>>

\* test_api_connection_with_retry(max_retries = 3)
max_retries == 3
\* The process before its first ping, and after the check returned True.
Starting == [state |-> "checking", attempts |-> 0]
Started == [state |-> "up", attempts |-> 1]

IdleThread ==
    [pc |-> "idle", ep |-> "", p |-> NoPayload, side |-> "", entry |-> Num(0),
     stop |-> Num(0), qty |-> Num(0), symbol |-> "", pos_qty |-> 0, order_id |-> 0,
     balance |-> 0,
     history |-> <<>>, rec |-> NoRec, resp |-> NoResp, calls |-> <<>>]

Init ==
    /\ th = [t \in Threads |-> IdleThread]
    /\ ledger = <<>>
    /\ tradeType \in {"futures", "spot"}
    /\ position \in IF tradeType = "futures" THEN {-2000, 0, 2000} ELSE {0, 2000}
    /\ nextOrderId = 1
    /\ clock = 1
    /\ nreq = 0
    /\ query = NoQuery
    /\ sizings = NoSizings
    /\ startup = Starting

\* Thread t's state with call c added to the calls of its request.
Called(s, c) == [s EXCEPT !.calls = Append(@, c)]


(* ------------------------------- startup ------------------------------- *)
\* The except branches of the loop body: log, then "raise"; the exception
\* leaves the function and the module, and the process exits.
on_ping_error(st) == [state |-> "failed", attempts |-> st.attempts + 1]

\* One iteration of "for attempt in range(max_retries)": client.ping()
\* succeeds and the function returns True, or it raises.
StartupPing ==
    /\ startup.state = "checking"
    /\ startup.attempts < max_retries
    /\ \/ startup' = [state |-> "up", attempts |-> startup.attempts + 1]
       \/ startup' = on_ping_error(startup)
    /\ UNCHANGED <<th, ledger, position, nextOrderId, clock, nreq, tradeType,
                   query, sizings>>


(* ------------------------------ handlers ------------------------------- *)
\* A request arrives at thread t: the handler parses, authorizes and validates
\* it, which touches no shared state, and either answers or goes on to its
\* first collaborator call.
Receive(t, r) ==
    /\ startup.state = "up"
    /\ th[t].pc \in {"idle", "done"}
    /\ nreq < MaxRequests
    /\ nreq' = nreq + 1
    /\ LET v == IF r.ep = "webhook" THEN webhook_validate(r.p)
                ELSE webhook_a_stock_validate(r.p)
           s == [IdleThread EXCEPT !.ep = r.ep, !.p = r.p, !.side = v.side,
                                   !.entry = v.entry, !.stop = v.stop,
                                   !.qty = v.qty, !.symbol = v.symbol]
       IN  th' = [th EXCEPT ![t] =
                    IF v.go
                    THEN [s EXCEPT !.pc = IF r.ep = "webhook" THEN "balance" ELSE "notify"]
                    ELSE [s EXCEPT !.pc = "done", !.resp = v.resp]]
    /\ UNCHANGED <<ledger, position, nextOrderId, clock, tradeType, query, sizings, startup>>

\* The single-threaded server: one request at a time, any payload.
ReceiveSeq(t) == t = 1 /\ \E r \in SeqRequests : Receive(t, r)

\* The threaded server: a request per thread, well-formed signals.
ReceiveConc(t) == \E r \in ConcRequests : Receive(t, r)

\* calc_qty's get_balance() call, drawn from results, and the "qty too small"
\* check of the handler.
SizeWith(t, results) ==
    /\ th[t].pc = "balance"
    /\ \E bal \in results :
         LET qty == calc_qty(th[t].entry, th[t].stop, bal)
             s == [Called(th[t], Call("balance", bal.ok, NoOrder))
                     EXCEPT !.balance = bal.v]
         IN  th' = [th EXCEPT ![t] =
                      IF qty_too_small(qty)
                      THEN [s EXCEPT !.pc = "done", !.qty = qty,
                                     !.resp = Resp(400, "qty too small")]
                      ELSE [s EXCEPT !.pc = "position", !.qty = qty]]
    /\ UNCHANGED <<ledger, position, nextOrderId, clock, nreq, tradeType, query, sizings, startup>>

\* The sizing step of a request.
QueryBalance(t) == SizeWith(t, BalanceResults)

\* The request after close_if_reverse returned: the skip / spot-SHORT check,
\* then the opening order.
after_reconcile(tt, s) ==
    LET sk == skip_check(tt, s.side, s.pos_qty)
    IN  IF sk # NoResp
        THEN [s EXCEPT !.pc = "done", !.resp = sk]
        ELSE [s EXCEPT !.pc = "open"]

\* A handler that sends the close order again after a failure.
on_close_errorRetry(tt, s) == [s EXCEPT !.pc = "close"]

\* A handler that logs the failed close and goes on.
on_close_errorBug(tt, s) == after_reconcile(tt, s)

\* "except Exception" around close_if_reverse: the request ends with a 500.
on_close_error(tt, s) == [s EXCEPT !.pc = "done", !.resp = close_failed_resp]

\* get_position_qty(), then close_if_reverse up to its exchange call.
QueryPosition(t) ==
    /\ th[t].pc = "position"
    /\ \/ th' = [th EXCEPT ![t] =
                   [Called(th[t], Call("position", FALSE, NoOrder))
                      EXCEPT !.pc = "done", !.resp = Resp(500, "failed to get position")]]
       \/ LET s == [Called(th[t], Call("position", TRUE, NoOrder))
                      EXCEPT !.pos_qty = position]
              c == close_if_reverse(tradeType, s.side, s.pos_qty)
          IN  th' = [th EXCEPT ![t] =
                       IF c.call /\ _close(tradeType, c.qty).sent
                       THEN [s EXCEPT !.pc = "close"]
                       ELSE after_reconcile(tradeType, s)]
    /\ UNCHANGED <<ledger, position, nextOrderId, clock, nreq, tradeType, query, sizings, startup>>

\* _close's order: accepted and filled by the exchange, or refused.
CloseOrder(t) ==
    /\ th[t].pc = "close"
    /\ LET c == close_if_reverse(tradeType, th[t].side, th[t].pos_qty)
           order == _close(tradeType, c.qty).order
       IN  \/ /\ CanFill(tradeType, order, position)
              /\ position' = Fill(order, position)
              /\ nextOrderId' = nextOrderId + 1
              /\ th' = [th EXCEPT ![t] =
                          after_reconcile(tradeType, Called(th[t], Call("close", TRUE, order)))]
           \/ /\ th' = [th EXCEPT ![t] =
                          on_close_error(tradeType, Called(th[t], Call("close", FALSE, order)))]
              /\ UNCHANGED <<position, nextOrderId>>
    /\ UNCHANGED <<ledger, clock, nreq, tradeType, query, sizings, startup>>

\* A handler that answers a refused order with "service unavailable".
on_open_error503(s) == [s EXCEPT !.pc = "done", !.resp = Resp(503, "order failed")]

\* A handler that records and announces the order although it was refused.
on_open_errorBug(s) == [s EXCEPT !.pc = "save_read"]

\* The except branches around the opening order: the request ends with a 500.
on_open_error(s) == [s EXCEPT !.pc = "done", !.resp = Resp(500, "order failed")]

\* The opening market order: accepted (the exchange returns an order id), or refused.
OpenOrder(t) ==
    /\ th[t].pc = "open"
    /\ LET order == open_order(tradeType, th[t].side, th[t].qty)
       IN  \/ /\ CanFill(tradeType, order, position)
              /\ position' = Fill(order, position)
              /\ nextOrderId' = nextOrderId + 1
              /\ th' = [th EXCEPT ![t] =
                          [Called(th[t], Call("open", TRUE, order))
                             EXCEPT !.pc = "save_read", !.order_id = nextOrderId]]
           \/ /\ th' = [th EXCEPT ![t] =
                          on_open_error(Called(th[t], Call("open", FALSE, order)))]
              /\ UNCHANGED <<position, nextOrderId>>
    /\ UNCHANGED <<ledger, clock, nreq, tradeType, query, sizings, startup>>

\* save_trade_history, first half: build the record, read the stored history
\* (an unreadable file is logged and read as empty).
SaveRead(t) ==
    /\ th[t].pc = "save_read"
    /\ clock' = clock + 1
    /\ \E readOk \in BOOLEAN :
         LET rec == TradeRecord(clock, th[t].side, th[t].qty, th[t].entry, th[t].stop,
                                th[t].order_id, th[t].symbol,
                                IF th[t].ep = "a_stock" THEN "msg" ELSE "")
         IN  th' = [th EXCEPT ![t] =
                      [Called(th[t], Call("ledger_read", readOk, NoOrder))
                         EXCEPT !.pc = "save_write", !.rec = rec,
                                !.history = IF readOk THEN ledger ELSE <<>>]]
    /\ UNCHANGED <<ledger, position, nextOrderId, nreq, tradeType, query, sizings, startup>>

\* A handler that notifies after saving on both paths.
after_saveBug(s, raised) ==
    IF raised
    THEN [s EXCEPT !.pc = "done", !.history = <<>>,
                   !.resp = IF s.ep = "webhook" THEN Resp(500, "order failed")
                            ELSE Resp(500, "internal server error")]
    ELSE [s EXCEPT !.pc = "notify", !.history = <<>>]

\* The handler after save_trade_history returned or raised.
after_save(s, raised) ==
    IF raised
    THEN [s EXCEPT !.pc = "done", !.history = <<>>,
                   !.resp = IF s.ep = "webhook" THEN Resp(500, "order failed")
                            ELSE Resp(500, "internal server error")]
    ELSE IF s.ep = "webhook"
    THEN [s EXCEPT !.pc = "notify", !.history = <<>>]
    ELSE [s EXCEPT !.pc = "done", !.history = <<>>, !.resp = Resp(200, "ok")]

\* save_trade_history, second half: append, cap, rewrite the file.  A failed
\* write leaves the file as it was, or truncated (unreadable, read as empty).
SaveWrite(t) ==
    /\ th[t].pc = "save_write"
    /\ LET readOk == th[t].calls[Len(th[t].calls)].ok
       IN  \/ /\ ledger' = save_history(th[t].history, th[t].rec)
              /\ th' = [th EXCEPT ![t] =
                          after_save(Called(th[t], Call("ledger_write", TRUE, NoOrder)),
                                     save_raises(readOk, TRUE))]
           \/ /\ ledger' \in {ledger, <<>>}
              /\ th' = [th EXCEPT ![t] =
                          after_save(Called(th[t], Call("ledger_write", FALSE, NoOrder)),
                                     save_raises(readOk, FALSE))]
    /\ UNCHANGED <<position, nextOrderId, clock, nreq, tradeType, query, sizings, startup>>

\* The handler after feishu_notify returned.
after_notify(s) ==
    IF s.ep = "webhook"
    THEN [s EXCEPT !.pc = "done", !.resp = Resp(200, "ok")]
    ELSE [s EXCEPT !.pc = "save_read"]

\* A notifier that lets the exception of a failed post out.
feishu_notify_raisesBug(posted) == ~posted

\* Whether feishu_notify raises: its "except Exception" logs and returns.
feishu_notify_raises(posted) == FALSE

\* The handler after its feishu_notify call: an exception would reach the
\* handler's outer "except Exception".
on_notify(s, posted) ==
    IF feishu_notify_raises(posted)
    THEN [s EXCEPT !.pc = "done", !.resp = Resp(500, "internal server error")]
    ELSE after_notify(s)

\* feishu_notify: the message is posted, the post fails (logged), or no
\* notification webhook is configured (nothing is sent).
Notify(t) ==
    /\ th[t].pc = "notify"
    /\ \/ th' = [th EXCEPT ![t] = on_notify(Called(th[t], Call("notify", TRUE, NoOrder)), TRUE)]
       \/ th' = [th EXCEPT ![t] = on_notify(Called(th[t], Call("notify", FALSE, NoOrder)), FALSE)]
       \/ th' = [th EXCEPT ![t] = after_notify(th[t])]
    /\ UNCHANGED <<ledger, position, nextOrderId, clock, nreq, tradeType, query, sizings, startup>>

\* The single-threaded server.
Next ==
    \/ StartupPing
    \/ \E t \in Threads :
        \/ ReceiveSeq(t)
        \/ QueryBalance(t)
        \/ QueryPosition(t)
        \/ CloseOrder(t)
        \/ OpenOrder(t)
        \/ SaveRead(t)
        \/ SaveWrite(t)
        \/ Notify(t)

Spec == Init /\ [][Next]_vars

\* A step of the request thread t is handling: a collaborator call that
\* returns or raises, and the handler's code up to its next call or response.
HandlerStep(t) ==
    \/ QueryBalance(t)
    \/ QueryPosition(t)
    \/ CloseOrder(t)
    \/ OpenOrder(t)
    \/ SaveRead(t)
    \/ SaveWrite(t)
    \/ Notify(t)

\* The single-threaded server when every collaborator call returns or raises.
SpecLive == Spec /\ \A t \in Threads : WF_vars(HandlerStep(t))

\* The threaded server: handlers interleave at their collaborator calls.
NextConc ==
    \/ StartupPing
    \/ \E t \in Threads :
        \/ ReceiveConc(t)
        \/ QueryBalance(t)
        \/ QueryPosition(t)
        \/ CloseOrder(t)
        \/ OpenOrder(t)
        \/ SaveRead(t)
        \/ SaveWrite(t)
        \/ Notify(t)

SpecConc == Init /\ [][NextConc]_vars


(* --------------------------- ledger alone ------------------------------ *)
\* The n-th record of a run of sequential appends.
LedgerRec(n) == TradeRecord(n, "LONG", Num(2000), Num(100), Num(95), n, "", "")

\* save_trade_history as one call: read (an unreadable file reads as empty),
\* append, cap, write (a failed write leaves the store as it was).
save_trade_history(store, rec, readOk, writeOk) ==
    IF writeOk THEN save_history(IF readOk THEN store ELSE <<>>, rec) ELSE store

InitLedger ==
    /\ th = [t \in Threads |-> IdleThread]
    /\ ledger = <<>>
    /\ tradeType = "futures"
    /\ position = 0
    /\ nextOrderId = 1
    /\ clock = 1
    /\ nreq = 0
    /\ query = NoQuery
    /\ sizings = NoSizings
    /\ startup = Started

\* One save_trade_history call after another on a working store.
LedgerAppend ==
    /\ clock <= MaxAppends
    /\ ledger' = save_trade_history(ledger, LedgerRec(clock), TRUE, TRUE)
    /\ clock' = clock + 1
    /\ UNCHANGED <<th, position, nextOrderId, nreq, tradeType, query, sizings, startup>>

NextLedger == LedgerAppend

SpecLedger == InitLedger /\ [][NextLedger]_vars


(* --------------------------- reading history --------------------------- *)
MaxStored == 5

\* A reader that returns the oldest records ("history[:limit]").
get_trade_historyBug(store, limit, readOk) ==
    IF ~readOk THEN <<>>
    ELSE IF limit > 0
         THEN SubSeq(store, 1, IF limit < Len(store) THEN limit ELSE Len(store))
         ELSE store

\* get_trade_history(limit): [] when the file is missing (an empty store) or
\* unreadable, else "history[-limit:] if limit > 0 else history".
get_trade_history(store, limit, readOk) ==
    IF ~readOk THEN <<>>
    ELSE IF limit > 0 THEN LastN(store, limit)
    ELSE store

\* The limits get_trade_history is called with.
Limits == (-1)..(MaxStored + 1)

InitHistory ==
    /\ th = [t \in Threads |-> IdleThread]
    /\ ledger = <<>>
    /\ tradeType = "futures"
    /\ position = 0
    /\ nextOrderId = 1
    /\ clock = 1
    /\ nreq = 0
    /\ query = NoQuery
    /\ sizings = NoSizings
    /\ startup = Started

\* A save_trade_history call on a working store.
HistoryAppend ==
    /\ Len(ledger) < MaxStored
    /\ ledger' = save_trade_history(ledger, LedgerRec(clock), TRUE, TRUE)
    /\ clock' = clock + 1
    /\ UNCHANGED <<th, position, nextOrderId, nreq, tradeType, query, sizings, startup>>

\* A get_trade_history call; store is what the file held when it was called.
GetHistory ==
    /\ \E limit \in Limits, readOk \in BOOLEAN :
         query' = [called |-> TRUE, limit |-> limit, readOk |-> readOk,
                   store |-> ledger,
                   result |-> get_trade_history(ledger, limit, readOk)]
    /\ UNCHANGED <<th, ledger, position, nextOrderId, clock, nreq, tradeType,
                   sizings, startup>>

NextHistory == HistoryAppend \/ GetHistory

SpecHistory == InitHistory /\ [][NextHistory]_vars


(* ---------------------------- sizer alone ------------------------------ *)
\* The entry and stop prices calc_qty is called with.
SizerPrices == {Num(-5), Num(0), Num(50), Num(93), Num(100), NaN, PInf}

\* What get_balance() gives the sizer: an exception, or a balance.
SizerBalanceResults ==
    {[ok |-> FALSE, v |-> 0]} \cup {[ok |-> TRUE, v |-> b] : b \in {-50, 0, 1, 1000}}

\* calc_qty is about to be called with any entry and stop; the account is
\* flat or holds a short position.
InitSizer ==
    /\ \E sd \in {"LONG", "SHORT"}, e \in SizerPrices, s \in SizerPrices :
         th = [t \in Threads |->
                 IF t = 1
                 THEN [IdleThread EXCEPT !.pc = "balance", !.ep = "webhook",
                                         !.side = sd, !.entry = e, !.stop = s]
                 ELSE IdleThread]
    /\ ledger = <<>>
    /\ tradeType = "futures"
    /\ position \in {-2000, 0}
    /\ nextOrderId = 1
    /\ clock = 1
    /\ nreq = 0
    /\ query = NoQuery
    /\ sizings = NoSizings
    /\ startup = Started

\* The call of calc_qty and the check of its result.
SizerCall(t) == SizeWith(t, SizerBalanceResults)

\* The sizer, then the rest of the handler.
NextSizer ==
    \E t \in Threads :
        \/ SizerCall(t)
        \/ QueryPosition(t)
        \/ CloseOrder(t)
        \/ OpenOrder(t)
        \/ SaveRead(t)
        \/ SaveWrite(t)
        \/ Notify(t)

SpecSizer == InitSizer /\ [][NextSizer]_vars


(* ------------------------- sizer, two calls ---------------------------- *)
\* The risk fractions, balances and prices the two calls are made with.
MonoRisks == {[num |-> 1, den |-> 100], [num |-> 1, den |-> 2], [num |-> 1, den |-> 1]}
MonoBalances == {1, 1000}
MonoPrices == {50, 93, 95, 100}

\* The inputs of a calc_qty call that is still to be made.
SizerInputs ==
    { [risk |-> r, bal |-> b, entry |-> e, stop |-> s, done |-> FALSE, qty |-> Num(0)] :
        r \in MonoRisks, b \in MonoBalances,
        e \in MonoPrices, s \in MonoPrices }

\* Two calc_qty calls with any valid inputs (entry # stop) are to be made.
InitMono ==
    /\ th = [t \in Threads |-> IdleThread]
    /\ ledger = <<>>
    /\ tradeType = "futures"
    /\ position = 0
    /\ nextOrderId = 1
    /\ clock = 1
    /\ nreq = 0
    /\ query = NoQuery
    /\ \E a \in SizerInputs, b \in SizerInputs :
         /\ a.entry # a.stop /\ b.entry # b.stop
         /\ sizings = <<a, b>>
    /\ startup = Started

\* The i-th call of calc_qty.
ApplySizer(i) ==
    /\ ~sizings[i].done
    /\ LET c == sizings[i]
       IN  sizings' = [sizings EXCEPT ![i] =
                         [c EXCEPT !.done = TRUE,
                                   !.qty = calc_qty_at(c.risk, Num(c.entry), Num(c.stop),
                                                       [ok |-> TRUE, v |-> c.bal])]]
    /\ UNCHANGED <<th, ledger, position, nextOrderId, clock, nreq, tradeType,
                   query, startup>>

NextMono == \E i \in {1, 2} : ApplySizer(i)

SpecMono == InitMono /\ [][NextMono]_vars


(* ------------------------- reading a request --------------------------- *)
Done(t) == th[t].pc = "done"
CallIdx(t) == 1..Len(th[t].calls)
HasCall(t, op) == \E i \in CallIdx(t) : th[t].calls[i].op = op
NoCalls(t, ops) == \A i \in CallIdx(t) : th[t].calls[i].op \notin ops

ExchangeOps == {"balance", "position", "close", "open"}
OrderOps == {"close", "open"}
LedgerOps == {"ledger_read", "ledger_write"}

\* The request of thread t carries a non-empty object.
IsObject(t) == th[t].p.kind = "obj"
Authorized(t) == IsObject(t) /\ EffectiveSecret(th[t].p) = WEBHOOK_SECRET
\* The position query of thread t's request returned: pos_qty is what it read.
PosKnown(t) ==
    \E i \in CallIdx(t) : th[t].calls[i].op = "position" /\ th[t].calls[i].ok
Opposing(t) ==
    \/ th[t].side = "LONG" /\ th[t].pos_qty < 0
    \/ th[t].side = "SHORT" /\ th[t].pos_qty > 0
SameSign(t) ==
    \/ th[t].side = "LONG" /\ th[t].pos_qty > 0
    \/ th[t].side = "SHORT" /\ th[t].pos_qty < 0

(* ------------------------------- claims -------------------------------- *)

\* C1 (as claimed): a request to either endpoint whose payload is an object and
\* whose effective secret is not WEBHOOK_SECRET is answered 403, makes no
\* exchange call and leaves the ledger alone.
C1_UnauthorizedIs403 ==
    \A t \in Threads :
        (th[t].pc # "idle" /\ IsObject(t) /\ EffectiveSecret(th[t].p) # WEBHOOK_SECRET)
        => /\ Done(t)
           /\ th[t].resp.status = 403
           /\ NoCalls(t, ExchangeOps \cup LedgerOps)

\* C2: on futures, an opening order of a request that had to close an opposing
\* position is attempted only after its reduce-only close was accepted; a
\* failed close ends the request with a 500 and is its last call (no opening
\* order, no ledger write).
C2_CloseBeforeOpen ==
    tradeType = "futures" =>
    \A t \in Threads :
        /\ \A j \in CallIdx(t) :
             (th[t].calls[j].op = "open" /\ PosKnown(t) /\ Opposing(t))
             => \E i \in 1..(j - 1) :
                   /\ th[t].calls[i].op = "close"
                   /\ th[t].calls[i].ok
                   /\ th[t].calls[i].order.ro
        /\ \A i \in CallIdx(t) :
             (th[t].calls[i].op = "close" /\ ~th[t].calls[i].ok)
             => /\ i = Len(th[t].calls)
                /\ Done(t)
                /\ th[t].resp.status = 500

\* C2's case: a futures request whose close was accepted and whose opening
\* order was then attempted.
C2_Witness ==
    /\ tradeType = "futures"
    /\ \E t \in Threads : \E i, j \in CallIdx(t) :
         /\ i < j
         /\ th[t].calls[i].op = "close" /\ th[t].calls[i].ok
         /\ th[t].calls[j].op = "open"

\* C3 (as claimed): every futures close order is reduce-only, has the size of
\* the position read, and is on the side that flattens it: BUY against a
\* short position (a LONG request), SELL against a long one (a SHORT request).
C3_CloseFlattens ==
    tradeType = "futures" =>
    \A t \in Threads : \A i \in CallIdx(t) :
        th[t].calls[i].op = "close"
        => /\ th[t].calls[i].order.ro
           /\ th[t].calls[i].order.qty = Num(Abs(th[t].pos_qty))
           /\ th[t].pos_qty < 0 => th[t].calls[i].order.side = "BUY"
           /\ th[t].pos_qty > 0 => th[t].calls[i].order.side = "SELL"

\* C4 (as claimed): on spot, an authorized SHORT request sends no order at all,
\* and, when its balance and position queries are answered, ends with a 400.
C4_SpotShortSendsNothing ==
    tradeType = "spot" =>
    \A t \in Threads :
        (th[t].ep = "webhook" /\ Authorized(t) /\ Upper(th[t].p.side) = "SHORT")
        => /\ NoCalls(t, OrderOps)
           /\ (Done(t) /\ ~(\E i \in CallIdx(t) : ~th[t].calls[i].ok))
              => th[t].resp.status = 400

RejectionBodies ==
    {"invalid side", "invalid entry or stop value", "entry and stop must be positive",
     "entry and stop must be different", "qty too small"}

\* C5: a /webhook request answered with a validation or sizing rejection has
\* sent no order and written no ledger record; and a request whose computed
\* qty is <= 0 is rejected with "qty too small" right after the balance query,
\* the position never being queried.
C5_RejectionsMutateNothing ==
    \A t \in Threads :
        th[t].ep = "webhook" =>
        /\ (Done(t) /\ th[t].resp.status = 400 /\ th[t].resp.body \in RejectionBodies)
           => NoCalls(t, OrderOps \cup LedgerOps)
        /\ (HasCall(t, "balance") /\ FLe0(th[t].qty))
           => /\ Done(t)
              /\ th[t].resp = Resp(400, "qty too small")
              /\ NoCalls(t, {"position"} \cup OrderOps \cup LedgerOps)

\* C5's case: a request rejected as too small after the exchange answered the
\* balance query.
C5_Witness ==
    \E t \in Threads :
        /\ th[t].ep = "webhook"
        /\ Done(t)
        /\ th[t].resp = Resp(400, "qty too small")
        /\ \E i \in CallIdx(t) : th[t].calls[i].op = "balance" /\ th[t].calls[i].ok

\* C6: on futures, a request that read a non-zero position on its own side
\* ends with "skip" (HTTP 200) and has sent no close or opening order, written
\* no ledger record and sent no notification.
C6_SameSideSkips ==
    tradeType = "futures" =>
    \A t \in Threads :
        (PosKnown(t) /\ SameSign(t))
        => /\ Done(t)
           /\ th[t].resp = Resp(200, "skip")
           /\ NoCalls(t, OrderOps \cup LedgerOps \cup {"notify"})

\* C6's case: both kinds of skip are reached; this is the SHORT one.
C6_Witness ==
    /\ tradeType = "futures"
    /\ \E t \in Threads :
         /\ PosKnown(t) /\ th[t].side = "SHORT" /\ th[t].pos_qty < 0
         /\ Done(t)

\* The three outcomes of the reconcile step of thread t's request.
Closes(t) == th[t].pc = "close" \/ HasCall(t, "close")
Skips(t) == Done(t) /\ th[t].resp.body = "skip"
OpensDirectly(t) ==
    /\ ~Closes(t)
    /\ th[t].pc = "open" \/ HasCall(t, "open")

\* C7: on futures, once the position p is read: an opposing position makes the
\* request call close with quantity |p| and attempt the opening order exactly
\* when that close was accepted; a position on the same side makes it skip;
\* p = 0 makes it attempt the opening order with no close call; and exactly
\* one of the three outcomes applies.
C7_ReconcileDecision ==
    tradeType = "futures" =>
    \A t \in Threads :
        PosKnown(t) =>
        /\ Opposing(t)
           => /\ Closes(t)
              /\ \A i \in CallIdx(t) :
                   th[t].calls[i].op = "close"
                   => /\ th[t].calls[i].order.qty = Num(Abs(th[t].pos_qty))
                      /\ th[t].calls[i].ok <=> (th[t].pc = "open" \/ HasCall(t, "open"))
        /\ SameSign(t) => Skips(t)
        /\ th[t].pos_qty = 0 => OpensDirectly(t)
        /\ Closes(t) => Opposing(t)
        /\ Skips(t) => SameSign(t)
        /\ OpensDirectly(t) => th[t].pos_qty = 0

\* C7's case: a SHORT request against a long position closed all of it and
\* went on to its opening order.
C7_Witness ==
    /\ tradeType = "futures"
    /\ \E t \in Threads :
         /\ PosKnown(t) /\ th[t].side = "SHORT" /\ th[t].pos_qty > 0
         /\ \E i \in CallIdx(t) :
              /\ th[t].calls[i].op = "close"
              /\ th[t].calls[i].order.qty = Num(th[t].pos_qty)
         /\ HasCall(t, "open")

Min(a, b) == IF a < b THEN a ELSE b

\* C8: after n sequential appends to an empty store, the ledger holds
\* min(n, 1000) records, and they are the last min(n, 1000) records appended,
\* in the order appended.
C8_LedgerKeepsLastThousand ==
    LET n == clock - 1
    IN  /\ Len(ledger) = Min(n, 1000)
        /\ \A i \in 1..Len(ledger) : ledger[i] = LedgerRec(n - Len(ledger) + i)

\* C8's case: one append more than the cap, the oldest record evicted.
C8_Witness ==
    /\ clock - 1 = 1001
    /\ Len(ledger) = 1000
    /\ ledger[1] = LedgerRec(2)

\* All of a request's ledger I/O succeeded.
LedgerIoOk(t) ==
    \A i \in CallIdx(t) : th[t].calls[i].op \in LedgerOps => th[t].calls[i].ok

\* C9 (as claimed): once concurrent handlers have all returned "ok" from
\* requests whose ledger reads and writes all succeeded, the ledger holds the
\* record of every one of them.
C9_NoLostAppend ==
    (\A t \in Threads : Done(t) /\ th[t].resp = Resp(200, "ok") /\ LedgerIoOk(t))
    => \A t \in Threads : \E i \in 1..Len(ledger) : ledger[i] = th[t].rec

\* C10: a /webhook request whose opening order was accepted never ends in an
\* error, whatever the ledger's reads and writes do: it is saving, notifying,
\* or done with "ok" (HTTP 200) and the order id the exchange returned.
C10_SaveNeverFailsRequest ==
    \A t \in Threads :
        (th[t].ep = "webhook"
         /\ \E i \in CallIdx(t) : th[t].calls[i].op = "open" /\ th[t].calls[i].ok)
        => /\ th[t].order_id > 0
           /\ \/ th[t].pc \in {"save_read", "save_write", "notify"}
              \/ Done(t) /\ th[t].resp = Resp(200, "ok")
           /\ (Done(t) \/ th[t].pc = "notify") => HasCall(t, "ledger_write")

\* C10's case: the order was placed, the ledger write failed, and the request
\* still answered "ok".
C10_Witness ==
    \E t \in Threads :
        /\ th[t].ep = "webhook"
        /\ Done(t)
        /\ th[t].resp = Resp(200, "ok")
        /\ \E i \in CallIdx(t) : th[t].calls[i].op = "ledger_write" /\ ~th[t].calls[i].ok



(* ------------------------------ the sizer ------------------------------ *)
\* The balance query of thread t's request returned a balance.
BalanceKnown(t) ==
    \E i \in CallIdx(t) : th[t].calls[i].op = "balance" /\ th[t].calls[i].ok
PosNum(x) == x.k = "num" /\ x.v > 0

\* C11 (as claimed): for a balance B > 0 and finite prices E > 0, S > 0,
\* E # S, the quantity the sizer returns satisfies qty * |E - S| <= B * R:
\* rounding to the quantity precision never rounds up past the risk bound.
C11_RiskBound ==
    \A t \in Threads :
        (/\ BalanceKnown(t) /\ th[t].balance > 0
         /\ PosNum(th[t].entry) /\ PosNum(th[t].stop) /\ th[t].entry # th[t].stop)
        => /\ th[t].qty.k = "num"
           /\ th[t].qty.v * Abs(th[t].entry.v - th[t].stop.v) * RiskDen
                  <= th[t].balance * RiskNum * QtyScale

\* The sizer was called and returned: the balance query is in the calls.
Sized(t) == HasCall(t, "balance")
\* The zero cases of the sizer's inputs.
ZeroCase(t) ==
    \/ BalanceKnown(t) /\ th[t].balance <= 0
    \/ FLe0(th[t].entry)
    \/ FLe0(th[t].stop)
    \/ th[t].entry.k = "num" /\ th[t].entry = th[t].stop

CallOk(t, op) == \E i \in CallIdx(t) : th[t].calls[i].op = op /\ th[t].calls[i].ok
CallCount(t, op) == Cardinality({i \in CallIdx(t) : th[t].calls[i].op = op})

\* The ledger records that carry thread t's order id.
RecordsOf(t) == {i \in 1..Len(ledger) : ledger[i].order_id = th[t].order_id}

\* The ledger holds exactly one record of thread t's order, and it carries
\* the request's side, entry and stop, the computed quantity and the order
\* id; the response is 'ok' (its qty, side and order_id are the same locals).
OrderRecorded(t) ==
    /\ th[t].resp = Resp(200, "ok")
    /\ th[t].qty.k = "num" /\ th[t].qty.v > 0
    /\ CallCount(t, "ledger_write") = 1
    /\ Cardinality(RecordsOf(t)) = 1
    /\ \A i \in RecordsOf(t) :
          /\ ledger[i].side = Upper(th[t].p.side)
          /\ ledger[i].entry = ParseFloat(th[t].p.entry).f
          /\ ledger[i].stop = ParseFloat(th[t].p.stop).f
          /\ ledger[i].qty = th[t].qty

ExchangeFailed(t) ==
    \E i \in CallIdx(t) : th[t].calls[i].op \in ExchangeOps /\ ~th[t].calls[i].ok

\* C14 (as claimed): a request one of whose exchange calls (balance query,
\* position query, close order, open order) failed is answered with a 5xx
\* status, never with a 4xx or a success.
C14_ExchangeFailureIs5xx ==
    \A t \in Threads :
        (Done(t) /\ ExchangeFailed(t)) => th[t].resp.status \in 500..599

\* C15: within one request the balance is queried at most once, the position
\* at most once, and at most one close order and one open order are sent,
\* also when one of these calls fails.
C15_NoRetry ==
    \A t \in Threads : \A op \in ExchangeOps : CallCount(t, op) <= 1
C15_Witness ==
    \E t \in Threads :
        /\ Done(t)
        /\ \A op \in ExchangeOps : CallCount(t, op) = 1
        /\ CallOk(t, "close") /\ ~CallOk(t, "open")


(* --------------------------- inbound signals --------------------------- *)
\* C16 (as claimed): on the record-only path every authorized EXIT signal
\* results in an appended EXIT record, paired by entry_id with the most
\* recent ENTRY LONG record of its symbol.  Stated here is its first part:
\* the handler has written the ledger by the time it answers.
C16_ExitRecorded ==
    \A t \in Threads :
        (/\ th[t].ep = "a_stock" /\ Done(t) /\ Authorized(t)
         /\ th[t].p.action # "num" /\ ActionOf(th[t].p) = "EXIT")
        => CallOk(t, "ledger_write")

\* A signal that is unparsable, not an object, unauthorized, or whose secret
\* or side has the wrong type.
Malformed(t) ==
    \/ th[t].p.kind # "obj"
    \/ EffectiveSecret(th[t].p) # WEBHOOK_SECRET
    \/ th[t].p.side = "num"

\* C17 (as claimed): every malformed or unauthorized inbound signal is
\* answered with a 4xx status, never with a 5xx.
C17_BadInputIs4xx ==
    \A t \in Threads :
        (Done(t) /\ Malformed(t)) => th[t].resp.status \in 400..499

\* x > 0 as a float comparison: false for nan.
FGt0(x) == x.k = "inf" \/ (x.k = "num" /\ x.v > 0)
\* The signal the claim lets through: side LONG or SHORT in any case, entry
\* and stop parse, entry > 0, stop > 0, entry # stop.
ValidSignal(p) ==
    /\ Upper(p.side) \in {"LONG", "SHORT"}
    /\ ParseFloat(p.entry).ok /\ ParseFloat(p.stop).ok
    /\ FGt0(ParseFloat(p.entry).f) /\ FGt0(ParseFloat(p.stop).f)
    /\ ParseFloat(p.entry).f # ParseFloat(p.stop).f
\* Thread t's request got as far as the sizer.
ReachesSizing(t) == th[t].pc = "balance" \/ HasCall(t, "balance")

\* C18 (as claimed, for requests whose side is a string or absent): an
\* authorized /webhook request reaches sizing only if its signal is valid;
\* every other request is rejected with 400.
C18_SizingOnlyIfValid ==
    \A t \in Threads :
        (th[t].ep = "webhook" /\ Authorized(t) /\ th[t].p.side # "num")
        => /\ ReachesSizing(t) => ValidSignal(th[t].p)
           /\ ~ValidSignal(th[t].p) => (Done(t) /\ th[t].resp.status = 400)

\* C19: the record-only path never calls the exchange; a request sends at
\* most one notification and writes the ledger at most once.
C19_RecordOnlyNoExchange ==
    \A t \in Threads :
        th[t].ep = "a_stock" =>
            /\ NoCalls(t, ExchangeOps)
            /\ CallCount(t, "notify") <= 1
            /\ CallCount(t, "ledger_write") <= 1
C19_Witness ==
    \E t \in Threads :
        /\ th[t].ep = "a_stock" /\ Done(t) /\ th[t].resp = Resp(200, "ok")
        /\ CallOk(t, "notify") /\ CallOk(t, "ledger_write")

\* The ENTRY the claim rejects: side not LONG, or qty, entry or stop
\* unparsable or not strictly positive.
BadEntry(p) ==
    \/ Upper(p.side) # "LONG"
    \/ ~ParseFloat(p.qty).ok \/ ~ParseFloat(p.entry).ok \/ ~ParseFloat(p.stop).ok
    \/ ~FGt0(ParseFloat(p.qty).f)
    \/ ~FGt0(ParseFloat(p.entry).f)
    \/ ~FGt0(ParseFloat(p.stop).f)

\* C20 (as claimed, for requests whose side is a string or absent): on the
\* record-only path an authorized ENTRY whose side is not LONG, or whose qty,
\* entry or stop is unparsable or not strictly positive, is answered 400,
\* sends no notification and leaves the ledger untouched.
C20_BadEntryRejected ==
    \A t \in Threads :
        (/\ th[t].ep = "a_stock" /\ Authorized(t)
         /\ th[t].p.action # "num" /\ ActionOf(th[t].p) = "ENTRY"
         /\ th[t].p.side # "num" /\ BadEntry(th[t].p))
        => /\ Done(t) /\ th[t].resp.status = 400
           /\ NoCalls(t, {"notify"} \cup LedgerOps)


(* ----------------------------- the reader ------------------------------ *)
\* C21: get_trade_history(limit) returns the last min(limit, n) of the n
\* stored records, in stored order, when limit > 0; all n records when
\* limit <= 0; the empty list when the store is missing or unreadable; and a
\* call never modifies the store.
C21_HistoryReader ==
    /\ [](query.called =>
            LET n == Len(query.store)
                k == Min(query.limit, n)
            IN  IF ~query.readOk \/ n = 0 THEN query.result = <<>>
                ELSE IF query.limit > 0
                THEN /\ Len(query.result) = k
                     /\ \A i \in 1..k : query.result[i] = query.store[n - k + i]
                ELSE query.result = query.store)
    /\ [][query' # query => ledger' = ledger]_vars
C21_Witness ==
    /\ query.called /\ query.readOk
    /\ query.limit > 1 /\ query.limit < Len(query.store)
    /\ Len(query.result) = query.limit
    /\ query.result[query.limit] = query.store[Len(query.store)]


(* --------------------------- failed notification ----------------------- *)
\* The notification of thread t's request was attempted and failed.
NotifyFailed(t) ==
    \E i \in CallIdx(t) : th[t].calls[i].op = "notify" /\ ~th[t].calls[i].ok

\* C22: a request whose notification failed, after an accepted order on
\* /webhook or for a valid ENTRY on /webhook_a_stock, is still answered 200
\* 'ok', and its ledger write is still made: once, and when the write
\* succeeds the record is the newest in the ledger.
C22_NotifyFailsOpen ==
    \A t \in Threads :
        (NotifyFailed(t) /\ Done(t)) =>
            /\ th[t].resp = Resp(200, "ok")
            /\ th[t].ep = "webhook" => CallOk(t, "open")
            /\ CallCount(t, "ledger_write") = 1
            /\ CallOk(t, "ledger_write") =>
                   (ledger # <<>> /\ ledger[Len(ledger)] = th[t].rec)
C22_Witness ==
    \E t \in Threads :
        /\ NotifyFailed(t) /\ Done(t) /\ th[t].ep = "a_stock"
        /\ th[t].resp = Resp(200, "ok")
        /\ CallOk(t, "ledger_write")
        /\ ledger[Len(ledger)] = th[t].rec


(* ------------------------ close, then failed open ---------------------- *)
\* The close order of thread t's request was accepted and its opening order
\* was refused.
ClosedNotOpened(t) ==
    /\ CallOk(t, "close")
    /\ HasCall(t, "open") /\ ~CallOk(t, "open")

\* C23: when the reduce-only close succeeds and the opening order then
\* fails, the request ends with a 500, writes no ledger record, sends no
\* notification and issues no further order, and the account is left flat.
C23_FlatAfterFailedOpen ==
    \A t \in Threads :
        ClosedNotOpened(t) =>
            /\ Done(t)
            /\ th[t].resp = Resp(500, "order failed")
            /\ NoCalls(t, {"notify"} \cup LedgerOps)
            /\ CallCount(t, "close") = 1 /\ CallCount(t, "open") = 1
            /\ position = 0
C23_Witness ==
    \E t \in Threads :
        /\ ClosedNotOpened(t) /\ th[t].pos_qty # 0
        /\ th[t].resp.status = 500 /\ position = 0


(* ------------------------- sizer monotonicity -------------------------- *)
SizerDist(c) == Abs(c.entry - c.stop)
\* a.risk <= b.risk as fractions.
RiskLe(a, b) == a.risk.num * b.risk.den <= b.risk.num * a.risk.den

\* C24: at a fixed precision the sizer's result is non-increasing in the stop
\* distance, non-decreasing in the balance and non-decreasing in the risk
\* fraction, for B > 0, R in (0,1], E > 0, S > 0, E # S.
C24_SizerMonotone ==
    (Len(sizings) = 2 /\ sizings[1].done /\ sizings[2].done) =>
        LET a == sizings[1]
            b == sizings[2]
        IN  /\ a.qty.k = "num" /\ b.qty.k = "num"
            /\ (a.bal = b.bal /\ a.risk = b.risk /\ SizerDist(a) <= SizerDist(b))
                   => a.qty.v >= b.qty.v
            /\ (a.risk = b.risk /\ SizerDist(a) = SizerDist(b) /\ a.bal <= b.bal)
                   => a.qty.v <= b.qty.v
            /\ (a.bal = b.bal /\ SizerDist(a) = SizerDist(b) /\ RiskLe(a, b))
                   => a.qty.v <= b.qty.v
C24_Witness ==
    /\ Len(sizings) = 2 /\ sizings[1].done /\ sizings[2].done
    /\ sizings[1].bal = sizings[2].bal /\ sizings[1].risk = sizings[2].risk
    /\ SizerDist(sizings[1]) < SizerDist(sizings[2])
    /\ sizings[1].qty.v > sizings[2].qty.v /\ sizings[2].qty.v > 0


(* --------------------------- the startup check ------------------------- *)
\* C25 (as claimed): a failed ping is retried, up to max_retries attempts in
\* all, and startup fails only after every attempt of the budget has failed.
C25_StartupRetries ==
    startup.state = "failed" => startup.attempts = max_retries


(* ------------------------------ responses ------------------------------ *)
SignalStatuses == {200, 400, 403, 500}

\* C26: when every collaborator call returns or raises, every request to a
\* signal endpoint ends with exactly one response, whose status is 200, 400,
\* 403 or 500 (never 503): a request has a response exactly when it is done,
\* a response once given does not change, and every received request is
\* eventually done.
C26_AlwaysAnswered ==
    /\ [](\A t \in Threads :
            /\ Done(t) <=> th[t].resp # NoResp
            /\ Done(t) => th[t].resp.status \in SignalStatuses)
    /\ [][\A t \in Threads :
            Done(t) => (th'[t] = th[t] \/ th'[t].calls = <<>>)]_vars
    /\ \A t \in Threads : (th[t].pc # "idle") ~> Done(t)
C26_Witness ==
    \E t \in Threads :
        /\ Done(t) /\ th[t].resp.status = 500
        /\ HasCall(t, "close") /\ ~CallOk(t, "close")


(* ------------------------------ order ids ------------------------------ *)
\* order_id 0 stands for None.  A record of /webhook_a_stock carries the
\* notification text as its message; a record of /webhook has none.
\* C27: a ledger record has a non-null order_id only if /webhook appended it
\* after the exchange accepted the opening order, whose id it is; every
\* record /webhook_a_stock appended has a null order_id.
C27_OrderIdOnlyForOrders ==
    /\ \A t \in Threads :
          /\ th[t].order_id # 0 =>
                (th[t].ep = "webhook" /\ CallOk(t, "open") /\ th[t].order_id < nextOrderId)
          /\ th[t].rec # NoRec =>
                /\ th[t].rec.order_id = th[t].order_id
                /\ th[t].ep = "a_stock" => th[t].rec.order_id = 0
                /\ th[t].rec.message = (IF th[t].ep = "a_stock" THEN "msg" ELSE "")
    /\ \A i \in 1..Len(ledger) :
          /\ ledger[i].order_id # 0 =>
                (ledger[i].message = "" /\ ledger[i].order_id < nextOrderId)
          /\ ledger[i].message # "" => ledger[i].order_id = 0
C27_Witness ==
    \E i, j \in 1..Len(ledger) :
        /\ ledger[i].order_id # 0 /\ ledger[i].message = ""
        /\ ledger[j].order_id = 0 /\ ledger[j].message # ""


(* ---------------------------- adding on spot --------------------------- *)
\* Thread t's request is a spot LONG that read a held position.
SpotLongOnLong(t) ==
    /\ tradeType = "spot" /\ th[t].ep = "webhook"
    /\ th[t].side = "LONG" /\ PosKnown(t) /\ th[t].pos_qty > 0

C29_LoggedBeforeNotified ==
    \A t \in Threads :
        \A i, j \in CallIdx(t) :
            (th[t].calls[i].op = "ledger_write" /\ th[t].calls[j].op = "notify") => i < j


(* --------------------------- racing requests --------------------------- *)
\* Thread t's request is a futures signal that read a flat position.
ReadFlat(t) ==
    /\ tradeType = "futures" /\ th[t].ep = "webhook"
    /\ PosKnown(t) /\ th[t].pos_qty = 0

\* C30: nothing orders two requests on the position.  A futures request that
\* read a flat position is never skipped and sends no close, whatever the
\* position has become since; it goes on to its opening order.  The
\* interleaving of the claim is C30_Witness: two same-side requests both read
\* position 0 and both have their opening orders accepted.
C30_NoOrderingOnPosition ==
    \A t \in Threads :
        ReadFlat(t) =>
            /\ th[t].resp.body # "skip"
            /\ ~HasCall(t, "close")
            /\ th[t].pc = "open" \/ HasCall(t, "open")
C30_Witness ==
    /\ \A t \in Threads : ReadFlat(t) /\ CallOk(t, "open") /\ th[t].side = th[1].side
    /\ Abs(position) = th[1].qty.v + th[2].qty.v


(* ------------------------ append with a failed read -------------------- *)
\* Thread t's save_trade_history call wrote the file in this step.
Wrote(t) ==
    th'[t].calls = Append(th[t].calls, Call("ledger_write", TRUE, NoOrder))

\* C31 (as claimed, for the appends whose write succeeds): an append removes
\* stored records only by cap eviction, also when reading the existing store
\* failed: the store afterwards is the last min(n + 1, 1000) elements of the
\* previous n records followed by the new record, or is unchanged.
C31_AppendKeepsRecords ==
    [][\A t \in Threads :
         Wrote(t) => \/ ledger' = ledger
                     \/ ledger' = LastN(Append(ledger, th[t].rec), LedgerCap)]_vars

\* C32 (as claimed): every opening order sent to the exchange carries a
\* quantity that is a number greater than 0 and equal to the sized qty, for
\* every entry and stop the numeric parse accepts, nan and inf included.
C32_OrderQtyPositive ==
    \A t \in Threads : \A i \in CallIdx(t) :
        th[t].calls[i].op = "open" =>
            /\ th[t].calls[i].order.qty.k = "num"
            /\ th[t].calls[i].order.qty.v > 0
            /\ th[t].calls[i].order.qty = th[t].qty

\* The orders of thread t's request that the exchange accepted.
AcceptedOrders(t) ==
    {i \in CallIdx(t) : th[t].calls[i].op \in OrderOps /\ th[t].calls[i].ok}

\* C33 (as claimed, on futures): every order sent to the exchange is
\* reflected in the ledger: when a request has completed and its ledger reads
\* and writes all succeeded, it has written one record for each order the
\* exchange accepted, the reduce-only close orders included.
C33_EveryOrderRecorded ==
    \A t \in Threads :
        (tradeType = "futures" /\ th[t].ep = "webhook" /\ Done(t) /\ LedgerIoOk(t)) =>
            CallCount(t, "ledger_write") = Cardinality(AcceptedOrders(t))

\* C34 (as claimed): every record /webhook_a_stock appends carries the symbol
\* given in the signal, also when it is missing or empty, and never SYMBOL in
\* its place.
C34_StockSymbolKept ==
    \A t \in Threads :
        (th[t].ep = "a_stock" /\ th[t].rec # NoRec) =>
            /\ th[t].rec.symbol = th[t].p.symbol
            /\ th[t].p.symbol # SYMBOL => th[t].rec.symbol # SYMBOL

\* C35 (as claimed): the authorization decision depends only on the
\* effective secret (the body's secret when present and non-empty, else the
\* query-string secret): a request with a parsed object body is rejected
\* with 403 exactly when its effective secret is not the configured one,
\* whatever its other fields are, and so also when its body secret is wrong
\* and its query-string secret is right.
C35_AuthBySecretOnly ==
    \A t \in Threads :
        (IsObject(t) /\ th[t].pc # "idle") =>
            /\ EffectiveSecret(th[t].p) # WEBHOOK_SECRET
                   => (Done(t) /\ th[t].resp = Resp(403, "unauthorized"))
            /\ EffectiveSecret(th[t].p) = WEBHOOK_SECRET => th[t].resp.status # 403

=========================================================================
